---- MODULE Spec2Model ----
(***************************************************************************)
(* Two Colab notebooks exported as scripts:                                *)
(*   penguins_classifier_(multiclass)_solutions.py                         *)
(*   nlp_text_vectorization_demo_(fall_2024).py                            *)
(* A notebook is a sequence of cells sharing one kernel namespace.  Run as *)
(* a script (python file.py) the first uncaught exception ends the run;    *)
(* run cell by cell in the notebook, a failing cell leaves the namespace   *)
(* as it was and the next cell can still be run.  Both runners are         *)
(* modelled (variable runner).                                             *)
(*                                                                         *)
(* A table cell is <<v>> when present and <<>> when missing (NaN).         *)
(* A DataFrame is [columns, index, data]: column names in order, row       *)
(* labels in order, and one row (a function column -> cell) per label.     *)
(* A Series is [name, index, data] with one cell per label.                *)
(***************************************************************************)
EXTENDS Integers, Sequences, FiniteSets, TLC

VARIABLES
  runner,      \* "python" (script, stops at the first exception) or "notebook"
  pc,          \* first source line of the next cell to run; Finished/Halted
  raised,      \* set of <<line, exception>> raised so far
  names,       \* names bound in the kernel namespace
  raw,         \* what load_penguins() returns
  df, x, y, x_scaled, x_train, x_test, y_train, y_test,
  model,       \* the LogisticRegression estimator: [fitted, classes_]
  y_pred,      \* model.predict(x_test)
  fig,         \* last figure shown by plot_confusion_matrix
  call,        \* arguments of the plot_confusion_matrix call that showed fig
  seeded,      \* permutations RandomState(99) has produced, by length
  corpus,      \* NLP notebook: the documents (df["text"], also the row labels)
  tv,          \* NLP notebook: the vectorizer last constructed (cv, then tv)
  tokens,      \* NLP notebook: feature names of the last fit
  embeddings_df \* NLP notebook: the last embeddings table

vars == <<runner, pc, raised, names, raw, df, x, y, x_scaled, x_train, x_test,
          y_train, y_test, model, y_pred, fig, call, seeded,
          corpus, tv, tokens, embeddings_df>>

----------------------------------------------------------------------------
(* Bounds of the model *)

MaxRows == 4
MaxDocs == 3
MaxSamples == 2

----------------------------------------------------------------------------
(* Generic helpers *)

NaN == <<>>
IsNa(c) == c = NaN
Val(c) == c[1]

Range(s) == {s[i] : i \in DOMAIN s}

RECURSIVE SumSeq(_)
SumSeq(s) == IF s = <<>> THEN 0 ELSE Head(s) + SumSeq(Tail(s))

\* Python's ordering of the strings that occur as labels and tokens.
Lexicon ==
  <<"A", "ADELIE", "BISCOE", "CHINSTRAP", "DREAM", "Dog", "FEMALE", "GENTOO", "MALE",
    "TORGERSEN",
    "a", "ate", "brown", "dog", "fox", "lazy", "quick", "ran", "red", "slept",
    "slow", "the", "walked", "yellow">>

InLexicon(S) == SelectSeq(Lexicon, LAMBDA w : w \in S)

\* sorted(set(values)) for string values
SortedUnique(S) == InLexicon(S)

\* str.upper() on the values the data set holds
Upper(s) ==
  CASE s = "Adelie" -> "ADELIE"
    [] s = "Gentoo" -> "GENTOO"
    [] s = "Chinstrap" -> "CHINSTRAP"
    [] s = "Torgersen" -> "TORGERSEN"
    [] s = "Biscoe" -> "BISCOE"
    [] s = "Dream" -> "DREAM"
    [] s = "male" -> "MALE"
    [] s = "female" -> "FEMALE"
    [] OTHER -> s

----------------------------------------------------------------------------
(* DataFrame / Series operations used by the penguins notebook *)

NoFrame == [columns |-> <<>>, index |-> <<>>, data |-> <<>>]
NoSeries == [name |-> "", index |-> <<>>, data |-> <<>>]

NRows(f) == Len(f.index)

\* frame.iloc[pos]
Take(f, pos) ==
  [columns |-> f.columns,
   index   |-> [k \in DOMAIN pos |-> f.index[pos[k]]],
   data    |-> [k \in DOMAIN pos |-> f.data[pos[k]]]]

\* series.iloc[pos]
TakeSeries(s, pos) ==
  [name  |-> s.name,
   index |-> [k \in DOMAIN pos |-> s.index[pos[k]]],
   data  |-> [k \in DOMAIN pos |-> s.data[pos[k]]]]

RowHasNa(f, row) == \E c \in Range(f.columns) : IsNa(row[c])

HasNa(f) == \E i \in DOMAIN f.data : RowHasNa(f, f.data[i])

SeriesHasNa(s) == \E i \in DOMAIN s.data : IsNa(s.data[i])

\* df.rename(columns={old: new}, inplace=True)
Rename(f, old, new) ==
  LET ren(c) == IF c = old THEN new ELSE c
      cols == [k \in DOMAIN f.columns |-> ren(f.columns[k])]
  IN [columns |-> cols,
      index   |-> f.index,
      data    |-> [i \in DOMAIN f.data |->
                     [c \in Range(cols) |->
                        f.data[i][IF c = new /\ old \in Range(f.columns)
                                  THEN old ELSE c]]]]

\* df[col] = df[col].str.upper()   (a missing value stays missing)
StrUpper(f, col) ==
  [f EXCEPT !.data =
     [i \in DOMAIN f.data |->
        [f.data[i] EXCEPT ![col] = IF IsNa(@) THEN @ ELSE <<Upper(Val(@))>>]]]

\* lines 23-26: rename sex to gender, upper-case the three text columns
Cleaned(f) ==
  StrUpper(StrUpper(StrUpper(Rename(f, "sex", "gender"), "species"), "island"), "gender")

\* df.dropna(): the rows without any missing value, labels kept
DropNaInert(f) == f

DropNa(f) ==
  Take(f, SelectSeq([i \in DOMAIN f.data |-> i], LAMBDA i : ~RowHasNa(f, f.data[i])))

\* df.drop(columns=cols): a new frame, df itself is not touched
DropColumnsTargetOnly(f, cols) ==
  LET keep == SelectSeq(f.columns, LAMBDA c : c # cols[1])
  IN [columns |-> keep,
      index   |-> f.index,
      data    |-> [i \in DOMAIN f.data |-> [c \in Range(keep) |-> f.data[i][c]]]]

DropColumns(f, cols) ==
  LET keep == SelectSeq(f.columns, LAMBDA c : c \notin Range(cols))
  IN [columns |-> keep,
      index   |-> f.index,
      data    |-> [i \in DOMAIN f.data |-> [c \in Range(keep) |-> f.data[i][c]]]]

\* df[col]
Column(f, col) ==
  [name  |-> col,
   index |-> f.index,
   data  |-> [i \in DOMAIN f.data |-> f.data[i][col]]]

\* series.unique() as a set of values (missing values left out)
Unique(s) == {Val(s.data[i]) : i \in {j \in DOMAIN s.data : ~IsNa(s.data[j])}}

\* the indicator columns get_dummies makes for one column: "<col>_<value>",
\* one per distinct non-missing value, in sorted order
DummyNames(f, col) ==
  LET vals == SortedUnique(Unique(Column(f, col)))
  IN [k \in DOMAIN vals |-> [name |-> col \o "_" \o vals[k], of |-> col, value |-> vals[k]]]

RECURSIVE AllDummies(_, _)
AllDummies(f, cols) ==
  IF cols = <<>> THEN <<>>
  ELSE DummyNames(f, Head(cols)) \o AllDummies(f, Tail(cols))

Indicator(cell, value) == IF ~IsNa(cell) /\ Val(cell) = value THEN <<1>> ELSE <<0>>

\* drop_first=True: the first category of each encoded column gets no indicator
GetDummiesDropFirst(f, cols) ==
  LET rest == SelectSeq(f.columns, LAMBDA c : c \notin Range(cols))
      all  == AllDummies(f, cols)
      dums == SelectSeq(all, LAMBDA d : d # DummyNames(f, d.of)[1])
      newcols == rest \o [k \in DOMAIN dums |-> dums[k].name]
      dum(c) == CHOOSE d \in Range(dums) : d.name = c
  IN [columns |-> newcols,
      index   |-> f.index,
      data    |-> [i \in DOMAIN f.data |->
                     [c \in Range(newcols) |->
                        IF c \in Range(rest) THEN f.data[i][c]
                        ELSE Indicator(f.data[i][dum(c).of], dum(c).value)]]]

\* pandas.get_dummies(f, columns=cols, dtype=int): the other columns first, as
\* they were, then the indicator columns of each encoded column
GetDummies(f, cols) ==
  LET rest == SelectSeq(f.columns, LAMBDA c : c \notin Range(cols))
      dums == AllDummies(f, cols)
      newcols == rest \o [k \in DOMAIN dums |-> dums[k].name]
      dum(c) == CHOOSE d \in Range(dums) : d.name = c
  IN [columns |-> newcols,
      index   |-> f.index,
      data    |-> [i \in DOMAIN f.data |->
                     [c \in Range(newcols) |->
                        IF c \in Range(rest) THEN f.data[i][c]
                        ELSE Indicator(f.data[i][dum(c).of], dum(c).value)]]]

----------------------------------------------------------------------------
(* Feature scaling: (x - x.mean(axis=0)) / x.std(axis=0)                    *)
(* Arithmetic is exact.  With n present values v_i of sum S in a column,    *)
(* v_i - mean = (n*v_i - S)/n and std^2 = Q/(n^2 * dof) with                *)
(* Q = sum (n*v_i - S)^2, so the scaled value is (n*v_i - S) * sqrt(dof/Q). *)
(* A scaled cell holds [num |-> n*v_i - S, q |-> Q, dof |-> dof].           *)

Present(f, c) == {i \in DOMAIN f.data : ~IsNa(f.data[i][c])}

ColSum(f, c) == SumSeq([i \in DOMAIN f.data |-> IF IsNa(f.data[i][c]) THEN 0 ELSE Val(f.data[i][c])])

\* n * (v_i - mean) for row i of column c (mean skips missing values)
Centered(f, c, i) == Cardinality(Present(f, c)) * Val(f.data[i][c]) - ColSum(f, c)

SumSqCentered(f, c) ==
  SumSeq([i \in DOMAIN f.data |->
            IF IsNa(f.data[i][c]) THEN 0 ELSE Centered(f, c, i) * Centered(f, c, i)])

\* numpy's default (ddof=0) instead of pandas' (ddof=1)
StdDofPopulation(f, c) == Cardinality(Present(f, c))

\* degrees of freedom of DataFrame.std: n - ddof with ddof = 1
StdDof(f, c) == Cardinality(Present(f, c)) - 1

\* 0/0 and x/NaN are NaN: a constant column, or one with fewer than two
\* values, scales to missing values
ScaledCell(f, c, i) ==
  IF IsNa(f.data[i][c]) \/ StdDof(f, c) < 1 \/ SumSqCentered(f, c) = 0
  THEN NaN
  ELSE <<[num |-> Centered(f, c, i), q |-> SumSqCentered(f, c), dof |-> StdDof(f, c)]>>

Standardize(f) ==
  [columns |-> f.columns,
   index   |-> f.index,
   data    |-> [i \in DOMAIN f.data |-> [c \in Range(f.columns) |-> ScaledCell(f, c, i)]]]

\* x_scaled.mean(axis=0)[c] = 0, for a column of scaled cells
ScaledMeanIsZero(f, c) ==
  /\ Present(f, c) = DOMAIN f.data
  /\ SumSeq([i \in DOMAIN f.data |-> Val(f.data[i][c]).num]) = 0

\* x_scaled.std(axis=0)[c] = 1 (ddof = 1): with k = sqrt(dof/q) common to the
\* column and T the sum of the nums, var = k^2 * sum (n*num_i - T)^2 / (n^2 (n-1))
ScaledStdIsOne(f, c) ==
  LET n == NRows(f)
      T == SumSeq([i \in DOMAIN f.data |-> Val(f.data[i][c]).num])
      d(i) == n * Val(f.data[i][c]).num - T
      k == Val(f.data[1][c])
  IN /\ Present(f, c) = DOMAIN f.data
     /\ n >= 2
     /\ \A i \in DOMAIN f.data : Val(f.data[i][c]).q = k.q /\ Val(f.data[i][c]).dof = k.dof
     /\ k.dof * SumSeq([i \in DOMAIN f.data |-> d(i) * d(i)]) = k.q * n * n * (n - 1)

----------------------------------------------------------------------------
(* sklearn.model_selection.train_test_split(x, y, test_size=0.2,            *)
(* random_state=99): one shuffle of the positions, the first n_test of them *)
(* are the test part, the rest the train part; x and y are cut alike.       *)

\* ceil(test_size * n) for test_size = 0.2
NTest(n) == (2 * n + 9) \div 10

\* random_state left out: every call shuffles afresh
UnseededShuffle(memo, n) == Permutations(1 .. n)

\* the permutations a RandomState seeded with random_state=99 may return for
\* length n: one fixed permutation per length (memo holds those drawn so far)
SeededShuffle(memo, n) ==
  IF n \in DOMAIN memo THEN {memo[n]} ELSE Permutations(1 .. n)

TestPositions(perm) == SubSeq(perm, 1, NTest(Len(perm)))

TrainPositions(perm) == SubSeq(perm, NTest(Len(perm)) + 1, Len(perm))

\* ValueError: no samples, or an empty train part, or x and y of unequal length
SplitRaises(xs, ys) ==
  \/ NRows(xs) # Len(ys.index)
  \/ NRows(xs) = 0
  \/ NRows(xs) - NTest(NRows(xs)) = 0

----------------------------------------------------------------------------
(* LogisticRegression: fitting and predicting are library internals.  What  *)
(* the notebook relies on: classes_ are the sorted labels of y_train, fit   *)
(* needs two classes and no missing value, predict returns one label of     *)
(* classes_ per row.                                                        *)

Unfitted == [fitted |-> FALSE, classes_ |-> <<>>]

Labels(s) == [i \in DOMAIN s.data |-> Val(s.data[i])]

FitRaises(xs, ys) == HasNa(xs) \/ Cardinality(Unique(ys)) < 2

Fit(xs, ys) == [fitted |-> TRUE, classes_ |-> SortedUnique(Unique(ys))]

Predictions(m, xs) == [DOMAIN xs.data -> Range(m.classes_)]

----------------------------------------------------------------------------
(* sklearn.metrics.confusion_matrix and plot_confusion_matrix               *)

CountPairs(yt, yp, a, b) == Cardinality({i \in DOMAIN yt : yt[i] = a /\ yp[i] = b})

\* confusion_matrix(y_true, y_pred, labels=labels): cell [i][j] counts the
\* samples with true label labels[i] and predicted label labels[j]; a sample
\* with a label outside labels is counted nowhere
ConfusionMatrix(yt, yp, labels) ==
  [i \in DOMAIN labels |-> [j \in DOMAIN labels |-> CountPairs(yt, yp, labels[i], labels[j])]]

\* ValueError: inputs of unequal length, or labels given of which none occurs
\* in y_true
ConfusionMatrixRaises(yt, yp, labels) ==
  \/ Len(yt) # Len(yp)
  \/ Len(yt) > 0 /\ Range(labels) \cap Range(yt) = {}

\* confusion_matrix(y_true, y_pred) without labels: the labels are those that
\* occur in either argument
ConfusionMatrixDefaultRaises(yt, yp) == Len(yt) # Len(yp)

NoFigure == [z |-> <<>>, x |-> <<>>, y |-> <<>>]

\* plot_confusion_matrix(y_true, y_pred) raises ValueError: line 171 on y_true
\* and y_pred, line 175 on the global y_test (ytest) and y_pred
PlotRaises(yt, yp, ytest) ==
  \/ ConfusionMatrixDefaultRaises(yt, yp)
  \/ ConfusionMatrixRaises(ytest, yp, SortedUnique(Range(ytest)))

\* the figure plot_confusion_matrix(y_true, y_pred) shows: px.imshow(cm,
\* x=class_names, y=class_names) with cm and class_names as lines 173-175 make
\* them, from the global y_test (ytest)
PlotConfusionMatrix(yt, yp, ytest) ==
  LET class_names == SortedUnique(Range(ytest))
  IN [z |-> ConfusionMatrix(ytest, yp, class_names), x |-> class_names, y |-> class_names]

----------------------------------------------------------------------------
(* The penguins notebook: its cells, named by their first source line *)

Cells ==
  <<20, 22, 29, 31, 35, 37, 42, 44, 46, 50, 52, 56, 58, 64, 83, 87, 89, 91, 94,
    98, 100, 102, 107, 110, 115, 117, 119, 124, 126, 128, 130, 132, 134, 136,
    138, 140, 143, 145, 147, 151, 153, 158, 160, 162, 165, 191, 196, 199, 201,
    212>>

EndOfFile == 213

\* the cell after the one at line
After(line) ==
  LET k == CHOOSE i \in DOMAIN Cells : Cells[i] = line
  IN IF k = Len(Cells) THEN EndOfFile ELSE Cells[k + 1]

\* names an import cell binds
Imports ==
  [l \in {20, 50, 56, 100, 115, 124, 138, 151, 158, 162, 199} |->
     CASE l = 20  -> {"load_penguins"}
       [] l = 50  -> {"px"}
       [] l = 56  -> {"pairplot"}
       [] l = 100 -> {"one_hot_encode"}
       [] l = 115 -> {"train_test_split"}
       [] l = 124 -> {"LogisticRegression"}
       [] l = 138 -> {"Series", "DataFrame"}
       [] l = 151 -> {"classification_report"}
       [] l = 158 -> {"confusion_matrix"}
       [] l = 162 -> {"confusion_matrix", "px"}
       [] l = 199 -> {"roc_auc_score"}]

\* function a def cell binds
Defs ==
  [l \in {64, 165, 201} |->
     CASE l = 64  -> {"plot_correlation_matrix"}
       [] l = 165 -> {"plot_confusion_matrix"}
       [] l = 201 -> {"compute_roc_auc_score"}]

\* names read by the cells that only display something
Shows ==
  [l \in {29, 31, 35, 42, 44, 46, 52, 58, 83, 87, 94, 110, 119, 130} |->
     CASE l \in {29, 31, 35, 42, 44, 46, 87} -> {"df"}
       [] l = 52  -> {"px", "df"}
       [] l = 58  -> {"pairplot", "df"}
       [] l = 83  -> {"plot_correlation_matrix", "px", "df"}
       [] l = 94  -> {"x"}
       [] l = 110 -> {"x_scaled"}
       [] l = 119 -> {"x_train", "y_train", "x_test", "y_test"}
       [] l = 130 -> {"model"}]

RawColumns == <<"species", "island", "body_mass_g", "sex", "year">>

\* rows as palmerpenguins holds them: sex and the measurements can be missing
PenguinRows ==
  <<[species |-> <<"Adelie">>, island |-> <<"Torgersen">>, body_mass_g |-> <<3750>>,
     sex |-> <<"male">>, year |-> <<2007>>],
    [species |-> <<"Adelie">>, island |-> <<"Torgersen">>, body_mass_g |-> NaN,
     sex |-> NaN, year |-> <<2007>>],
    [species |-> <<"Adelie">>, island |-> <<"Biscoe">>, body_mass_g |-> <<3800>>,
     sex |-> <<"female">>, year |-> <<2007>>],
    [species |-> <<"Gentoo">>, island |-> <<"Biscoe">>, body_mass_g |-> <<3800>>,
     sex |-> NaN, year |-> <<2008>>],
    [species |-> <<"Gentoo">>, island |-> <<"Biscoe">>, body_mass_g |-> <<3750>>,
     sex |-> <<"female">>, year |-> <<2008>>],
    [species |-> <<"Chinstrap">>, island |-> <<"Dream">>, body_mass_g |-> <<3800>>,
     sex |-> <<"male">>, year |-> <<2009>>]>>

\* a data set: rows of PenguinRows in their order, labelled 0, 1, 2, ...
Dataset(sel) ==
  [columns |-> RawColumns,
   index   |-> [k \in DOMAIN sel |-> k - 1],
   data    |-> [k \in DOMAIN sel |-> PenguinRows[sel[k]]]]

Selections ==
  UNION {{s \in [1 .. n -> DOMAIN PenguinRows] :
            \A k \in 1 .. n - 1 : s[k] <= s[k + 1]} : n \in 2 .. MaxRows}

\* The palmerpenguins data has, among its complete rows, several islands,
\* both sexes and varying measurements: no feature column is constant.
Varied(f) ==
  LET g == DropNa(f)
  IN /\ NRows(g) >= 2
     /\ \A c \in {"island", "body_mass_g", "sex"} : Cardinality(Unique(Column(g, c))) >= 2

None == <<>>

\* the vectorizers the notebook constructs, by the line that constructs them
Defaults ==
  [kind |-> "tfidf", stop_words |-> {}, max_features |-> None,
   min_df |-> [kind |-> "count", num |-> 1, den |-> 1],
   max_df |-> [kind |-> "share", num |-> 1, den |-> 1]]

NoVectorizer == [Defaults EXCEPT !.kind = "none"]

Halted == runner = "python" /\ raised # {}

At(line) == pc = line /\ ~Halted

Completes(binds) ==
  /\ pc' = After(pc)
  /\ names' = names \cup binds
  /\ raised' = raised

Raises(exc) ==
  /\ raised' = raised \cup {<<pc, exc>>}
  /\ pc' = IF runner = "python" THEN pc ELSE After(pc)
  /\ names' = names

prep == <<df, x, y, x_scaled>>
parts == <<x_train, x_test, y_train, y_test, seeded>>
eval == <<model, y_pred, fig, call>>
fixed == <<runner, raw, corpus, tv, tokens, embeddings_df>>

Init ==
  /\ runner \in {"python", "notebook"}
  /\ pc = Cells[1]
  /\ raised = {}
  /\ names = {}
  /\ raw \in {Dataset(sel) : sel \in {s \in Selections : Varied(Dataset(s))}}
  /\ df = NoFrame /\ x = NoFrame /\ y = NoSeries /\ x_scaled = NoFrame
  /\ x_train = NoFrame /\ x_test = NoFrame /\ y_train = NoSeries /\ y_test = NoSeries
  /\ model = Unfitted
  /\ y_pred = <<>>
  /\ fig = NoFigure
  /\ call = [y_true |-> <<>>, y_pred |-> <<>>]
  /\ seeded = <<>>
  /\ corpus = <<>> /\ tv = NoVectorizer /\ tokens = <<>> /\ embeddings_df = NoFrame

\* from ... import ...
Import ==
  /\ \E l \in DOMAIN Imports : At(l) /\ Completes(Imports[l])
  /\ UNCHANGED <<fixed, prep, parts, eval>>

\* def ...: binds the function; its body runs when called
Def ==
  /\ \E l \in DOMAIN Defs : At(l) /\ Completes(Defs[l])
  /\ UNCHANGED <<fixed, prep, parts, eval>>

\* df.head(), df.info(), value_counts(), plots, prints
Show ==
  /\ \E l \in DOMAIN Shows :
       /\ At(l)
       /\ IF Shows[l] \subseteq names THEN Completes({}) ELSE Raises("NameError")
  /\ UNCHANGED <<fixed, prep, parts, eval>>

\* df = load_penguins(); rename sex to gender; upper-case the three text columns
LoadAndClean ==
  /\ At(22)
  /\ IF "load_penguins" \in names
     THEN df' = Cleaned(raw) /\ Completes({"df"})
     ELSE Raises("NameError") /\ df' = df
  /\ UNCHANGED <<fixed, x, y, x_scaled, parts, eval>>

\* df.dropna(inplace=True)
DropNulls ==
  /\ At(37)
  /\ IF "df" \in names
     THEN df' = DropNa(df) /\ Completes({})
     ELSE Raises("NameError") /\ df' = df
  /\ UNCHANGED <<fixed, x, y, x_scaled, parts, eval>>

\* target = "species"
SetTarget ==
  /\ At(89)
  /\ Completes({"target"})
  /\ UNCHANGED <<fixed, prep, parts, eval>>

\* x = df.drop(columns=[target, "year"]); y = df[target]
XYSplit ==
  /\ At(91)
  /\ IF {"df", "target"} \subseteq names
     THEN /\ x' = DropColumns(df, <<"species", "year">>)
          /\ y' = Column(df, "species")
          /\ Completes({"x", "y"})
     ELSE Raises("NameError") /\ UNCHANGED <<x, y>>
  /\ UNCHANGED <<fixed, df, x_scaled, parts, eval>>

\* one_hot_encode(x, ...) in the cell before the one that imports it
EncodePreview ==
  /\ At(98)
  /\ IF {"one_hot_encode", "x"} \subseteq names THEN Completes({}) ELSE Raises("NameError")
  /\ UNCHANGED <<fixed, prep, parts, eval>>

\* x = one_hot_encode(x, columns=["island", "gender"], dtype=int)
Encode ==
  /\ At(102)
  /\ IF {"one_hot_encode", "x"} \subseteq names
     THEN x' = GetDummies(x, <<"island", "gender">>) /\ Completes({})
     ELSE Raises("NameError") /\ x' = x
  /\ UNCHANGED <<fixed, df, y, x_scaled, parts, eval>>

\* x_scaled = (x - x.mean(axis=0)) / x.std(axis=0)
Scale ==
  /\ At(107)
  /\ IF "x" \in names
     THEN x_scaled' = Standardize(x) /\ Completes({"x_scaled"})
     ELSE Raises("NameError") /\ x_scaled' = x_scaled
  /\ UNCHANGED <<fixed, df, x, y, parts, eval>>

\* the four parts train_test_split returns for the shuffle perm
SplitParts(xs, ys, perm) ==
  [x_train |-> Take(xs, TrainPositions(perm)),
   x_test  |-> Take(xs, TestPositions(perm)),
   y_train |-> TakeSeries(ys, TrainPositions(perm)),
   y_test  |-> TakeSeries(ys, TestPositions(perm))]

Split(perm) ==
  LET r == SplitParts(x_scaled, y, perm)
  IN /\ x_train' = r.x_train /\ x_test' = r.x_test
     /\ y_train' = r.y_train /\ y_test' = r.y_test
     /\ seeded' = (Len(perm) :> perm) @@ seeded

\* x_train, x_test, y_train, y_test =
\*   train_test_split(x_scaled, y, test_size=0.2, random_state=99)
TrainTestSplit ==
  /\ At(117)
  /\ IF ~({"train_test_split", "x_scaled", "y"} \subseteq names)
     THEN Raises("NameError") /\ UNCHANGED parts
     ELSE IF SplitRaises(x_scaled, y)
     THEN Raises("ValueError") /\ UNCHANGED parts
     ELSE /\ \E perm \in SeededShuffle(seeded, NRows(x_scaled)) : Split(perm)
          /\ Completes({"x_train", "x_test", "y_train", "y_test"})
  /\ UNCHANGED <<fixed, prep, eval>>

\* the Train Test Split cell run once more in the notebook, on the same input
RunSplitAgain ==
  /\ runner = "notebook"
  /\ pc \in Range(Cells) \cup {EndOfFile} /\ pc > 117
  /\ {"train_test_split", "x_train"} \subseteq names
  /\ \E perm \in SeededShuffle(seeded, NRows(x_scaled)) : Split(perm)
  /\ UNCHANGED <<fixed, prep, eval, pc, names, raised>>

\* model = LogisticRegression(random_state=99, C=1)
NewModel ==
  /\ At(126)
  /\ IF "LogisticRegression" \in names
     THEN model' = Unfitted /\ Completes({"model"})
     ELSE Raises("NameError") /\ model' = model
  /\ UNCHANGED <<fixed, prep, parts, y_pred, fig, call>>

\* model.fit(x_train, y_train)
FitModel ==
  /\ At(128)
  /\ IF ~({"model", "x_train", "y_train"} \subseteq names)
     THEN Raises("NameError") /\ model' = model
     ELSE IF FitRaises(x_train, y_train)
     THEN Raises("ValueError") /\ model' = model
     ELSE model' = Fit(x_train, y_train) /\ Completes({})
  /\ UNCHANGED <<fixed, prep, parts, y_pred, fig, call>>

\* model.classes_, model.coef_.shape, model.feature_names_in_, and
\* coef = DataFrame(model.coef_, ...).T : attributes only a fitted model has
FittedAttribute ==
  /\ \E l \in {132, 134, 136, 140} :
       /\ At(l)
       /\ IF ~(IF l = 140 THEN {"DataFrame", "model", "x_scaled"} ELSE {"model"}) \subseteq names
          THEN Raises("NameError")
          ELSE IF ~model.fitted
          THEN Raises("AttributeError")
          ELSE Completes(IF l = 140 THEN {"coef"} ELSE {})
  /\ UNCHANGED <<fixed, prep, parts, eval>>

\* coef["ADELIE"], coef["CHINSTRAP"], coef["GENTOO"]: one column per class
CoefColumn ==
  /\ \E l \in {143, 145, 147} :
       /\ At(l)
       /\ LET species == CASE l = 143 -> "ADELIE" [] l = 145 -> "CHINSTRAP" [] l = 147 -> "GENTOO"
          IN IF "coef" \notin names
             THEN Raises("NameError")
             ELSE IF species \notin Range(model.classes_)
             THEN Raises("KeyError")
             ELSE Completes({})
  /\ UNCHANGED <<fixed, prep, parts, eval>>

\* y_pred = model.predict(x_test); print(classification_report(y_test, y_pred))
Predict ==
  /\ At(153)
  /\ IF ~({"model", "x_test"} \subseteq names)
     THEN Raises("NameError") /\ y_pred' = y_pred
     ELSE IF ~model.fitted
     THEN Raises("NotFittedError") /\ y_pred' = y_pred
     ELSE IF HasNa(x_test)
     THEN Raises("ValueError") /\ y_pred' = y_pred
     ELSE /\ y_pred' \in Predictions(model, x_test)
          /\ IF {"classification_report", "y_test"} \subseteq names
             THEN Completes({"y_pred"})
             ELSE Raises("NameError") /\ names' = names \cup {"y_pred"}
  /\ UNCHANGED <<fixed, prep, parts, model, fig, call>>

\* print(confusion_matrix(y_test, y_pred, labels=model.classes_))
PrintConfusionMatrix ==
  /\ At(160)
  /\ IF ~({"confusion_matrix", "y_test", "y_pred", "model"} \subseteq names)
     THEN Raises("NameError")
     ELSE IF ConfusionMatrixRaises(Labels(y_test), y_pred, model.classes_)
     THEN Raises("ValueError")
     ELSE Completes({})
  /\ UNCHANGED <<fixed, prep, parts, eval>>

\* subtitle = ...; plot_confusion_matrix(y_test, y_pred, subtitle=subtitle, height=450)
PlotCell ==
  /\ At(191)
  /\ IF ~({"model", "plot_confusion_matrix", "y_test", "y_pred", "confusion_matrix", "px"}
            \subseteq names)
     THEN Raises("NameError") /\ UNCHANGED <<fig, call>>
     ELSE IF PlotRaises(Labels(y_test), y_pred, Labels(y_test))
     THEN Raises("ValueError") /\ UNCHANGED <<fig, call>>
     ELSE /\ call' = [y_true |-> Labels(y_test), y_pred |-> y_pred]
          /\ fig' = PlotConfusionMatrix(Labels(y_test), y_pred, Labels(y_test))
          /\ Completes({"subtitle"})
  /\ UNCHANGED <<fixed, prep, parts, model, y_pred>>

\* y_pred_proba = model.predict_proba(x_test)
PredictProba ==
  /\ At(196)
  /\ IF ~({"model", "x_test"} \subseteq names)
     THEN Raises("NameError")
     ELSE IF ~model.fitted
     THEN Raises("NotFittedError")
     ELSE IF HasNa(x_test)
     THEN Raises("ValueError")
     ELSE Completes({"y_pred_proba"})
  /\ UNCHANGED <<fixed, prep, parts, eval>>

\* compute_roc_auc_score(y_test, y_pred_proba): roc_auc_score(multi_class="ovr")
\* needs the classes of y_test to be the columns of y_pred_proba
RocAuc ==
  /\ At(212)
  /\ IF ~({"compute_roc_auc_score", "y_test", "y_pred_proba", "roc_auc_score"} \subseteq names)
     THEN Raises("NameError")
     ELSE IF SortedUnique(Unique(y_test)) # model.classes_
     THEN Raises("ValueError")
     ELSE Completes({})
  /\ UNCHANGED <<fixed, prep, parts, eval>>

Next ==
  \/ Import
  \/ Def
  \/ Show
  \/ LoadAndClean
  \/ DropNulls
  \/ SetTarget
  \/ XYSplit
  \/ EncodePreview
  \/ Encode
  \/ Scale
  \/ TrainTestSplit
  \/ RunSplitAgain
  \/ NewModel
  \/ FitModel
  \/ FittedAttribute
  \/ CoefColumn
  \/ Predict
  \/ PrintConfusionMatrix
  \/ PlotCell
  \/ PredictProba
  \/ RocAuc

Spec == Init /\ [][Next]_vars

----------------------------------------------------------------------------
(* The text vectorization notebook.  A document is its sequence of words;   *)
(* CountVectorizer / TfidfVectorizer lower-case it, keep the tokens of two  *)
(* or more characters, drop the stop words, count the rest, sort the        *)
(* vocabulary and prune it by document frequency and by max_features.       *)

\* str.lower() on the words the documents hold
Lower(w) ==
  CASE w = "A" -> "a"
    [] w = "Dog" -> "dog"
    [] OTHER -> w

\* the words of sklearn's ENGLISH_STOP_WORDS that the documents can hold
EnglishStopWords == {"a", "the"}

\* the analyzer: lowercase, token_pattern (?u)\b\w\w+\b, stop word removal
Analyze(doc, params) ==
  SelectSeq([k \in DOMAIN doc |-> Lower(doc[k])],
            LAMBDA w : Len(w) >= 2 /\ w \notin params.stop_words)

\* the analyzed corpus: one token sequence per document
Analyzed(docs, params) == [d \in DOMAIN docs |-> Analyze(docs[d], params)]

\* the sorted vocabulary of the analyzed corpus toks
Vocabulary(toks) == SortedUnique(UNION {Range(toks[d]) : d \in DOMAIN toks})

\* occurrences of term in one analyzed document
TermCount(doc, term) == Cardinality({k \in DOMAIN doc : doc[k] = term})

\* number of documents the term occurs in
DocFrequency(toks, term) == Cardinality({d \in DOMAIN toks : term \in Range(toks[d])})

\* occurrences of term over the whole corpus (X.sum(axis=0))
TotalCount(toks, term) == SumSeq([d \in DOMAIN toks |-> TermCount(toks[d], term)])

\* a min_df / max_df threshold: an absolute count (int) or a share of the
\* documents (float), as the rational num/den of a count
DocCount(threshold, n) ==
  IF threshold.kind = "count"
  THEN [num |-> threshold.num, den |-> 1]
  ELSE [num |-> threshold.num * n, den |-> threshold.den]

\* ValueError("max_df corresponds to < documents than min_df")
ThresholdsRaise(n, params) ==
  LET hi == DocCount(params.max_df, n)
      lo == DocCount(params.min_df, n)
  IN hi.num * lo.den < lo.num * hi.den

\* the mask of _limit_features: dfs <= high and dfs >= low
InFrequencyRange(toks, params, term) ==
  LET dfs == DocFrequency(toks, term)
      hi == DocCount(params.max_df, Len(toks))
      lo == DocCount(params.min_df, Len(toks))
  IN dfs * hi.den <= hi.num /\ dfs * lo.den >= lo.num

\* tfs.argsort()[:limit]: the terms of lowest count
RECURSIVE TopByCountAscending(_, _, _)
TopByCountAscending(tfs, terms, limit) ==
  IF limit = 0 \/ terms = <<>> THEN {}
  ELSE LET best == CHOOSE k \in DOMAIN terms :
                     \A j \in DOMAIN terms :
                        \/ tfs[terms[k]] < tfs[terms[j]]
                        \/ tfs[terms[k]] = tfs[terms[j]] /\ k <= j
           first == terms[best]
       IN {first} \cup
          TopByCountAscending(tfs, SelectSeq(terms, LAMBDA t : t # first), limit - 1)

\* (-tfs).argsort()[:limit] over terms (a sorted sequence) with total counts
\* tfs: the limit terms of highest count, ties going to the earlier term
RECURSIVE TopByCount(_, _, _)
TopByCount(tfs, terms, limit) ==
  IF limit = 0 \/ terms = <<>> THEN {}
  ELSE LET best == CHOOSE k \in DOMAIN terms :
                     \A j \in DOMAIN terms :
                        \/ tfs[terms[k]] > tfs[terms[j]]
                        \/ tfs[terms[k]] = tfs[terms[j]] /\ k <= j
           first == terms[best]
       IN {first} \cup TopByCount(tfs, SelectSeq(terms, LAMBDA t : t # first), limit - 1)

\* _limit_features: the terms kept, in vocabulary order
LimitFeatures(docs, params) ==
  LET toks == Analyzed(docs, params)
      masked == SelectSeq(Vocabulary(toks), LAMBDA t : InFrequencyRange(toks, params, t))
      tfs == [t \in Range(masked) |-> TotalCount(toks, t)]
      top == TopByCount(tfs, masked, Val(params.max_features))
  IN IF params.max_features # None /\ Len(masked) > Val(params.max_features)
     THEN SelectSeq(masked, LAMBDA t : t \in top)
     ELSE masked

\* ValueError: empty vocabulary, inverted thresholds, or nothing left after pruning
FitRaisesValueError(docs, params) ==
  \/ Vocabulary(Analyzed(docs, params)) = <<>>
  \/ ThresholdsRaise(Len(docs), params)
  \/ LimitFeatures(docs, params) = <<>>

\* a cell of the embeddings table.  CountVectorizer: the count.  TfidfVectorizer:
\* the count weighted by idf = ln((1 + n) / (1 + df)) + 1, rows scaled to unit
\* length; the cell keeps what determines the weight.
Weight(toks, params, d, term) ==
  IF params.kind = "count"
  THEN <<[tf |-> TermCount(toks[d], term)]>>
  ELSE <<[tf |-> TermCount(toks[d], term),
          df |-> DocFrequency(toks, term),
          n  |-> Len(toks)]>>

\* DataFrame(embeddings.todense(), columns=tokens, index=x.index)
Embeddings(docs, params) ==
  LET names_out == LimitFeatures(docs, params)
      toks == Analyzed(docs, params)
  IN [columns |-> names_out,
      index   |-> docs,
      data    |-> [d \in DOMAIN docs |->
                     [t \in Range(names_out) |-> Weight(toks, params, d, t)]]]

\* cv = CountVectorizer()
BagOfWords == [Defaults EXCEPT !.kind = "count"]

\* tv = TfidfVectorizer()
PlainTfidf == Defaults

\* tv = TfidfVectorizer(stop_words="english")
StopwordRemoval == [Defaults EXCEPT !.stop_words = EnglishStopWords]

\* tv = TfidfVectorizer(max_features=4)
MaxFeatures == [Defaults EXCEPT !.max_features = <<4>>]

\* tv = TfidfVectorizer(min_df=0.5): max_df left at its default
TokenFrequencyMinOnly ==
  [Defaults EXCEPT !.min_df = [kind |-> "share", num |-> 5, den |-> 10]]

\* tv = TfidfVectorizer(min_df=0.5, max_df=0.9)
TokenFrequencyRange ==
  [Defaults EXCEPT !.min_df = [kind |-> "share", num |-> 5, den |-> 10],
                   !.max_df = [kind |-> "share", num |-> 9, den |-> 10]]

NlpCells == <<17, 19, 28, 37, 39, 41, 59, 61, 63, 83, 85, 107, 109, 119, 121>>

EndOfNlp == 125

AfterNlp(line) ==
  LET k == CHOOSE i \in DOMAIN NlpCells : NlpCells[i] = line
  IN IF k = Len(NlpCells) THEN EndOfNlp ELSE NlpCells[k + 1]

NlpImports ==
  [l \in {17, 37, 59} |->
     CASE l = 17 -> {"DataFrame"}
       [] l = 37 -> {"CountVectorizer"}
       [] l = 59 -> {"TfidfVectorizer"}]

Constructs ==
  [l \in {39, 61, 83, 107, 119} |->
     CASE l = 39  -> BagOfWords
       [] l = 61  -> PlainTfidf
       [] l = 83  -> StopwordRemoval
       [] l = 107 -> MaxFeatures
       [] l = 119 -> TokenFrequencyRange]

\* the four sentences of the notebook
Sentences ==
  <<<<"the", "quick", "brown", "fox", "ate">>,
    <<"the", "slow", "brown", "dog", "walked">>,
    <<"the", "quick", "red", "dog", "ran">>,
    <<"the", "lazy", "yellow", "fox", "slept">>>>

\* documents a corpus is drawn from: the four sentences and one with a
\* one-letter word, a repeated word and a capital
Documents == Sentences \o <<<<"A", "quick", "quick", "Dog">>>>

\* the notebook's corpus, and every corpus of up to MaxDocs documents
Corpora == {Sentences} \cup UNION {[1 .. n -> Range(Documents)] : n \in 1 .. MaxDocs}

NlpCompletes(binds) ==
  /\ pc' = AfterNlp(pc)
  /\ names' = names \cup binds
  /\ raised' = raised

NlpRaises(exc) ==
  /\ raised' = raised \cup {<<pc, exc>>}
  /\ pc' = IF runner = "python" THEN pc ELSE AfterNlp(pc)
  /\ names' = names

penguins ==
  <<raw, df, x, y, x_scaled, x_train, x_test, y_train, y_test, model, y_pred, fig,
    call, seeded>>

InitNlp ==
  /\ runner \in {"python", "notebook"}
  /\ pc = NlpCells[1]
  /\ raised = {}
  /\ names = {}
  /\ corpus \in Corpora
  /\ tv = NoVectorizer /\ tokens = <<>> /\ embeddings_df = NoFrame
  /\ raw = NoFrame
  /\ df = NoFrame /\ x = NoFrame /\ y = NoSeries /\ x_scaled = NoFrame
  /\ x_train = NoFrame /\ x_test = NoFrame /\ y_train = NoSeries /\ y_test = NoSeries
  /\ model = Unfitted
  /\ y_pred = <<>>
  /\ fig = NoFigure
  /\ call = [y_true |-> <<>>, y_pred |-> <<>>]
  /\ seeded = <<>>

\* from ... import ...
NlpImport ==
  /\ \E l \in DOMAIN NlpImports : At(l) /\ NlpCompletes(NlpImports[l])
  /\ UNCHANGED <<runner, penguins, corpus, tv, tokens, embeddings_df>>

\* df = DataFrame({"text": [...]}); df.index = df["text"]
MakeFrame ==
  /\ At(19)
  /\ IF "DataFrame" \in names THEN NlpCompletes({"df"}) ELSE NlpRaises("NameError")
  /\ UNCHANGED <<runner, penguins, corpus, tv, tokens, embeddings_df>>

\* x = df["text"]
TakeText ==
  /\ At(28)
  /\ IF "df" \in names THEN NlpCompletes({"x"}) ELSE NlpRaises("NameError")
  /\ UNCHANGED <<runner, penguins, corpus, tv, tokens, embeddings_df>>

\* cv = CountVectorizer() / tv = TfidfVectorizer(...)
Construct ==
  /\ \E l \in DOMAIN Constructs :
       /\ At(l)
       /\ IF (IF l = 39 THEN "CountVectorizer" ELSE "TfidfVectorizer") \in names
          THEN tv' = Constructs[l] /\ NlpCompletes({IF l = 39 THEN "cv" ELSE "tv"})
          ELSE NlpRaises("NameError") /\ tv' = tv
  /\ UNCHANGED <<runner, penguins, corpus, tokens, embeddings_df>>

\* embeddings = tv.fit_transform(x); tokens = tv.get_feature_names_out();
\* embeddings_df = DataFrame(embeddings.todense(), columns=tokens, index=x.index)
FitTransform ==
  /\ \E l \in {41, 63, 85, 109, 121} :
       /\ At(l)
       /\ IF ~({IF l = 41 THEN "cv" ELSE "tv", "x", "DataFrame"} \subseteq names)
          THEN NlpRaises("NameError") /\ UNCHANGED <<tokens, embeddings_df>>
          ELSE IF FitRaisesValueError(corpus, tv)
          THEN NlpRaises("ValueError") /\ UNCHANGED <<tokens, embeddings_df>>
          ELSE /\ embeddings_df' = Embeddings(corpus, tv)
               /\ tokens' = embeddings_df'.columns
               /\ NlpCompletes({"embeddings", IF l = 41 THEN "feature_names" ELSE "tokens",
                                "embeddings_df"})
  /\ UNCHANGED <<runner, penguins, corpus, tv>>

NextNlp ==
  \/ NlpImport
  \/ MakeFrame
  \/ TakeText
  \/ Construct
  \/ FitTransform

SpecNlp == InitNlp /\ [][NextNlp]_vars

----------------------------------------------------------------------------
(* plot_confusion_matrix as a function: any call, once the notebook has     *)
(* defined it and bound the global y_test                                   *)

Species == {"ADELIE", "CHINSTRAP", "GENTOO"}

LabelSeqs == UNION {[1 .. n -> Species] : n \in 1 .. MaxSamples}

LabelSeries(labels) ==
  [name  |-> "species",
   index |-> [k \in DOMAIN labels |-> k - 1],
   data  |-> [k \in DOMAIN labels |-> <<labels[k]>>]]

InitPlot ==
  /\ runner = "notebook"
  /\ pc = EndOfFile
  /\ raised = {}
  /\ names = {"confusion_matrix", "px", "plot_confusion_matrix", "y_test"}
  /\ y_test \in {LabelSeries(l) : l \in LabelSeqs}
  /\ raw = NoFrame
  /\ df = NoFrame /\ x = NoFrame /\ y = NoSeries /\ x_scaled = NoFrame
  /\ x_train = NoFrame /\ x_test = NoFrame /\ y_train = NoSeries
  /\ model = Unfitted
  /\ y_pred = <<>>
  /\ fig = NoFigure
  /\ call = [y_true |-> <<>>, y_pred |-> <<>>]
  /\ seeded = <<>>
  /\ corpus = <<>> /\ tv = NoVectorizer /\ tokens = <<>> /\ embeddings_df = NoFrame

\* plot_confusion_matrix(y_true, y_pred)
CallPlot ==
  /\ {"confusion_matrix", "px", "plot_confusion_matrix", "y_test"} \subseteq names
  /\ \E yt \in LabelSeqs, yp \in LabelSeqs :
       IF PlotRaises(yt, yp, Labels(y_test))
       THEN raised' = raised \cup {<<165, "ValueError">>} /\ UNCHANGED <<fig, call>>
       ELSE /\ call' = [y_true |-> yt, y_pred |-> yp]
            /\ fig' = PlotConfusionMatrix(yt, yp, Labels(y_test))
            /\ raised' = raised
  /\ UNCHANGED <<fixed, prep, parts, model, y_pred, pc, names>>

NextPlot == CallPlot

SpecPlot == InitPlot /\ [][NextPlot]_vars

----------------------------------------------------------------------------
(* Properties *)

Min(a, b) == IF a <= b THEN a ELSE b

SplitDone == "x_train" \in names

\* C1: every cell of the penguins notebook completes, each using only names
\* an earlier cell has bound; in particular one_hot_encode is bound when the
\* cell at line 98 calls it.
C1_EveryStepCompletes ==
  /\ raised = {}
  /\ pc = 98 => "one_hot_encode" \in names

\* C2: the figure plot_confusion_matrix(y_true, y_pred) shows is the confusion
\* matrix of its y_true argument against its y_pred argument: cell (i, j)
\* counts the samples with y_true = i-th class and y_pred = j-th class, rows
\* and columns carrying the same class names.
C2_PlotsTrueAgainstPred ==
  fig # NoFigure =>
    /\ fig.x = fig.y
    /\ \A i \in DOMAIN fig.y : \A j \in DOMAIN fig.x :
         fig.z[i][j] = CountPairs(call.y_true, call.y_pred, fig.y[i], fig.x[j])

C4_OneHotEncoding ==
  pc > 102 =>
    LET islands == Unique(Column(df, "island"))
        genders == Unique(Column(df, "gender"))
    IN /\ Range(x.columns) =
            {"body_mass_g"} \cup {"island_" \o v : v \in islands}
                            \cup {"gender_" \o v : v \in genders}
       /\ Len(x.columns) = 1 + Cardinality(islands) + Cardinality(genders)
       /\ x.index = df.index
       /\ \A i \in DOMAIN x.data :
            /\ x.data[i]["body_mass_g"] = df.data[i]["body_mass_g"]
            /\ \A v \in islands :
                 x.data[i]["island_" \o v] = IF df.data[i]["island"] = <<v>> THEN <<1>> ELSE <<0>>
            /\ \A v \in genders :
                 x.data[i]["gender_" \o v] = IF df.data[i]["gender"] = <<v>> THEN <<1>> ELSE <<0>>
            /\ Cardinality({v \in islands : x.data[i]["island_" \o v] = <<1>>}) = 1
            /\ Cardinality({v \in genders : x.data[i]["gender_" \o v] = <<1>>}) = 1

C4_Witness ==
  /\ pc > 102
  /\ NRows(df) < NRows(raw)
  /\ NRows(x) >= 3
  /\ {"island_BISCOE", "island_DREAM", "gender_FEMALE", "gender_MALE"} \subseteq Range(x.columns)

C6_MaxFeatures ==
  (pc \in {119, 121} /\ <<109, "ValueError">> \notin raised) =>
    LET toks == Analyzed(corpus, Defaults)
        vocab == Range(Vocabulary(toks))
    IN /\ Range(tokens) \subseteq vocab
       /\ Cardinality(Range(tokens)) = Len(tokens)
       /\ Len(tokens) = Min(4, Cardinality(vocab))
       /\ corpus = Sentences => Len(tokens) = 4
       /\ \A k \in Range(tokens) : \A o \in vocab \ Range(tokens) :
            TotalCount(toks, o) <= TotalCount(toks, k)
       /\ embeddings_df.columns = tokens
       /\ embeddings_df.index = corpus
       /\ DOMAIN embeddings_df.data = DOMAIN corpus
       /\ \A d \in DOMAIN corpus : DOMAIN embeddings_df.data[d] = Range(tokens)

C6_Witness ==
  /\ pc = 119 /\ <<109, "ValueError">> \notin raised
  /\ corpus = Sentences
  /\ tokens = <<"brown", "dog", "fox", "the">>
  /\ NRows(embeddings_df) = 4

\* C7: after df.dropna(inplace=True) no row of df has a missing value, every
\* row that had none is still there, unchanged and in order, every row
\* removed had one; and x, y, x_train, x_test, y_train, y_test never hold a
\* missing value.
C7_NoMissingValues ==
  LET before == Cleaned(raw)
  IN /\ pc > 37 =>
          /\ ~HasNa(df)
          /\ \A i \in DOMAIN before.data :
               RowHasNa(before, before.data[i])
                 <=> before.index[i] \notin Range(df.index)
          /\ \A k \in DOMAIN df.index :
               \E i \in DOMAIN before.index :
                  before.index[i] = df.index[k] /\ before.data[i] = df.data[k]
          /\ \A k \in DOMAIN df.index : k > 1 => df.index[k - 1] < df.index[k]
          /\ df.columns = before.columns
     /\ pc > 91 => ~HasNa(x) /\ ~SeriesHasNa(y)
     /\ pc > 107 => ~HasNa(x_scaled)
     /\ SplitDone =>
          ~HasNa(x_train) /\ ~HasNa(x_test) /\ ~SeriesHasNa(y_train) /\ ~SeriesHasNa(y_test)

C7_Witness ==
  /\ SplitDone /\ pc > 117
  /\ NRows(df) >= 3
  /\ NRows(raw) - NRows(df) >= 1
  /\ \E i \in DOMAIN raw.data : IsNa(raw.data[i]["sex"]) /\ ~IsNa(raw.data[i]["body_mass_g"])
  /\ NRows(x_train) >= 2 /\ NRows(x_test) >= 1

\* what C8 says of the four parts once the Train Test Split cell has run
Partitioned ==
  SplitDone =>
    /\ Range(x_train.index) \cap Range(x_test.index) = {}
    /\ Range(x_train.index) \cup Range(x_test.index) = Range(x_scaled.index)
    /\ NRows(x_train) + NRows(x_test) = NRows(x_scaled)
    /\ y_train.index = x_train.index /\ y_test.index = x_test.index
    /\ \A k \in DOMAIN x_train.index :
         \E i \in DOMAIN y.index :
            /\ y.index[i] = x_train.index[k] /\ x_scaled.index[i] = x_train.index[k]
            /\ x_train.data[k] = x_scaled.data[i] /\ y_train.data[k] = y.data[i]
    /\ \A k \in DOMAIN x_test.index :
         \E i \in DOMAIN y.index :
            /\ y.index[i] = x_test.index[k] /\ x_scaled.index[i] = x_test.index[k]
            /\ x_test.data[k] = x_scaled.data[i] /\ y_test.data[k] = y.data[i]
    /\ 5 * NRows(x_test) >= NRows(x_scaled)
    /\ 5 * (NRows(x_test) - 1) < NRows(x_scaled)

C9_CountsEveryTestSample ==
  fig # NoFigure =>
    /\ SumSeq([i \in DOMAIN fig.z |-> SumSeq(fig.z[i])]) = Len(y_test.data)
    /\ \A i \in DOMAIN fig.z :
         SumSeq(fig.z[i]) = Cardinality({k \in DOMAIN y_test.data : y_test.data[k] = <<fig.y[i]>>})

\* C10: from the X/Y Split cell on, x, x_scaled, x_train and x_test have no
\* species and no year column, y is the species column, x and y carry the row
\* index of df, and df itself still has all its columns.
C10_FeaturesExcludeTarget ==
  pc > 91 =>
    /\ Range(x.columns) \cap {"species", "year"} = {}
    /\ Range(x_scaled.columns) \cap {"species", "year"} = {}
    /\ Range(x_train.columns) \cap {"species", "year"} = {}
    /\ Range(x_test.columns) \cap {"species", "year"} = {}
    /\ y.name = "species"
    /\ y.data = [i \in DOMAIN df.data |-> df.data[i]["species"]]
    /\ x.index = df.index /\ y.index = df.index
    /\ df.columns = <<"species", "island", "body_mass_g", "gender", "year">>
    /\ df = DropNa(Cleaned(raw))

C10_Witness ==
  /\ SplitDone /\ pc > 117
  /\ "body_mass_g" \in Range(x_train.columns)
  /\ "body_mass_g" \in Range(x_test.columns)
  /\ NRows(y) >= 3

====
